---- MODULE Spec2Model ----
(***************************************************************************)
(* A model of scraper/veritas_to_gsheets.py: the field normalizers, the    *)
(* row classifier and record builder of fetch_menu, and update_sheets (the *)
(* diff against the stored sheet, the rewrite of the "Current Menu" sheet  *)
(* and the append to the "Changelog" sheet).                               *)
(*                                                                         *)
(* Python strings are sequences of one-character strings, so that lower(), *)
(* the "in" test, the regular expressions and the f-strings are computed   *)
(* and not assumed.                                                        *)
(***************************************************************************)
EXTENDS Integers, Sequences, FiniteSets, TLC

VARIABLES
    current_ws,     \* rows of the "Current Menu" worksheet (row 1: the header row)
    changelog_ws,   \* rows of the "Changelog" worksheet
    pc,             \* position of the running update_sheets call, "idle" between runs
    now,            \* the clock, counted in minutes (format_timestamp has minute resolution)
    records,        \* the list fetch_menu returned to this run
    timestamp,      \* update_sheets' timestamp
    old_data,       \* what current_ws.get_all_records() returned (or [] on failure)
    set_order,      \* the order in which the set of common ids is iterated (line 395)
    changelog_rows, \* the change rows the diff built
    outcome,        \* how the last ended run ended: "none", "done", "aborted", "crashed"
    failed,         \* history: the store calls that failed in this run
    sheet_before,   \* history: current_ws when the run started
    log_before,     \* history: changelog_ws when the run started
    text,           \* input of the field normalizers
    parsed,         \* their results
    ppc,            \* "in" before the normalizers ran, "out" after, "off" otherwise
    menu_rows,      \* the rows of the scraped table (fetch_menu, line 221)
    section_label,  \* the section_text given to extract_lab_from_section
    section_lab     \* the lab it returned, "Unknown" (line 225) before it ran

vars == <<current_ws, changelog_ws, pc, now, records, timestamp, old_data, set_order,
          changelog_rows, outcome, failed, sheet_before, log_before, text, parsed, ppc,
          menu_rows, section_label, section_lab>>

runVars == <<current_ws, changelog_ws, pc, now, records, timestamp, old_data, set_order,
             changelog_rows, outcome, failed, sheet_before, log_before>>

parseVars == <<text, parsed, ppc>>

scrapeVars == <<menu_rows, section_label, section_lab>>

(***************************************************************************)
(* Bounds                                                                  *)
(***************************************************************************)
\* longest enumerated cell text given to the field normalizers
MaxLen == 3

\* runs of the scraper (main) in one behaviour
MaxRuns == 2

\* rows of a table given to the diff alone
MaxRows == 2

(***************************************************************************)
(* Characters and strings                                                  *)
(***************************************************************************)
\* the printable ASCII characters, in code order starting at 32 ("grave" stands for
\* the backquote, which a TLA+ string cannot hold; no modelled text contains it)
Ascii ==
    <<" ", "!", "\"", "#", "$", "%", "&", "'", "(", ")", "*", "+", ",", "-", ".", "/",
      "0", "1", "2", "3", "4", "5", "6", "7", "8", "9", ":", ";", "<", "=", ">", "?",
      "@", "A", "B", "C", "D", "E", "F", "G", "H", "I", "J", "K", "L", "M", "N", "O",
      "P", "Q", "R", "S", "T", "U", "V", "W", "X", "Y", "Z", "[", "\\", "]", "^", "_",
      "grave", "a", "b", "c", "d", "e", "f", "g", "h", "i", "j", "k", "l", "m", "n", "o",
      "p", "q", "r", "s", "t", "u", "v", "w", "x", "y", "z", "{", "|", "}", "~">>

Chars == {Ascii[i] : i \in 1..Len(Ascii)}

\* ord(c)
Ord == [c \in Chars |-> 31 + (CHOOSE i \in 1..Len(Ascii) : Ascii[i] = c)]

\* chr(n)
Chr(n) == Ascii[n - 31]

Digits == {"0", "1", "2", "3", "4", "5", "6", "7", "8", "9"}

\* the characters \s matches, among the modelled ones
Spaces == {" "}

LowerChar(c) == IF Ord[c] >= 65 /\ Ord[c] <= 90 THEN Chr(Ord[c] + 32) ELSE c

UpperChar(c) == IF Ord[c] >= 97 /\ Ord[c] <= 122 THEN Chr(Ord[c] - 32) ELSE c

\* s[a-1:b] of Python: the characters a..b of s, clipped to s
Slice(s, a, b) ==
    LET lo == IF a < 1 THEN 1 ELSE a
        hi == IF b > Len(s) THEN Len(s) ELSE b
    IN  [i \in 1..(hi - lo + 1) |-> s[lo + i - 1]]

\* str.lower()
lower(s) == [i \in 1..Len(s) |-> LowerChar(s[i])]

\* str.upper()
upper(s) == [i \in 1..Len(s) |-> UpperChar(s[i])]

\* sub in s
Contains(sub, s) ==
    \E i \in 1..(Len(s) - Len(sub) + 1) : Slice(s, i, i + Len(sub) - 1) = sub

\* the index after the longest run of characters of cls that starts at i
RECURSIVE RunEnd(_, _, _)
RunEnd(s, i, cls) ==
    IF i <= Len(s) /\ s[i] \in cls THEN RunEnd(s, i + 1, cls) ELSE i

\* str.strip()
RECURSIVE strip(_)
strip(s) ==
    IF s = <<>> THEN s
    ELSE IF s[1] \in Spaces THEN strip(Tail(s))
    ELSE IF s[Len(s)] \in Spaces THEN strip(Slice(s, 1, Len(s) - 1))
    ELSE s

\* str.replace(a, b) for single characters a, with b a string
RECURSIVE replace(_, _, _)
replace(s, a, b) ==
    IF s = <<>> THEN <<>>
    ELSE (IF s[1] = a THEN b ELSE <<s[1]>>) \o replace(Tail(s), a, b)

\* int(s) for a string of decimal digits
RECURSIVE int(_)
int(s) ==
    IF s = <<>> THEN 0
    ELSE 10 * int(Slice(s, 1, Len(s) - 1)) + (Ord[s[Len(s)]] - 48)

\* str(n) for an int n >= 0
RECURSIVE IntStr(_)
IntStr(n) ==
    IF n < 10 THEN <<Chr(48 + n)>> ELSE IntStr(n \div 10) \o <<Chr(48 + (n % 10))>>

\* a < b for strings (lexicographic by character code)
RECURSIVE StrLess(_, _)
StrLess(a, b) ==
    IF b = <<>> THEN FALSE
    ELSE IF a = <<>> THEN TRUE
    ELSE IF a[1] = b[1] THEN StrLess(Tail(a), Tail(b))
    ELSE Ord[a[1]] < Ord[b[1]]

(***************************************************************************)
(* Floats.  A float is the decimal it was parsed from: integer part ip and *)
(* fraction digits fr without trailing zeros.  raised marks the ValueError *)
(* float() raises instead of returning.                                    *)
(***************************************************************************)
RECURSIVE TrimZeros(_)
TrimZeros(ds) ==
    IF ds # <<>> /\ ds[Len(ds)] = "0" THEN TrimZeros(Slice(ds, 1, Len(ds) - 1)) ELSE ds

Float(ip, fr) == [raised |-> FALSE, ip |-> ip, fr |-> TrimZeros(fr)]

ValueError == [raised |-> TRUE, ip |-> 0, fr |-> <<>>]

\* float(s), for s of digits and dots (signs, exponents, inf and nan are not modelled:
\* no modelled string holds them); anything else raises ValueError
float(s) ==
    LET dots == {i \in 1..Len(s) : s[i] = "."}
        digs == {i \in 1..Len(s) : s[i] \in Digits}
    IN  IF dots \cup digs # 1..Len(s) \/ digs = {} \/ Cardinality(dots) > 1
        THEN ValueError
        ELSE IF dots = {} THEN Float(int(s), <<>>)
        ELSE LET d == CHOOSE i \in dots : TRUE
             IN  Float(int(Slice(s, 1, d - 1)), Slice(s, d + 1, Len(s)))

\* str(x) for a float x (repr's exponent forms are outside the modelled values)
FloatStr(x) == IntStr(x.ip) \o <<".">> \o (IF x.fr = <<>> THEN <<"0">> ELSE x.fr)

\* f"{x:.2f}": two decimals, rounded on the third (no modelled value is a tie)
Fmt2(x) ==
    LET f2    == Slice(x.fr \o <<"0", "0">>, 1, 2)
        up    == Len(x.fr) > 2 /\ Ord[x.fr[3]] >= 53
        cents == 100 * x.ip + int(f2) + (IF up THEN 1 ELSE 0)
        c     == cents % 100
    IN  IntStr(cents \div 100) \o <<".">> \o <<Chr(48 + (c \div 10)), Chr(48 + (c % 10))>>

(***************************************************************************)
(* Field normalizers (lines 101-123, 176-180)                              *)
(***************************************************************************)
SOLD_OUT == <<"S", "O", "L", "D", " ", "O", "U", "T">>

NoMatch == [found |-> FALSE, group |-> <<>>, start |-> 0]

\* re.search(r"(\d+)\s*g", text, re.IGNORECASE): the leftmost digit from which the
\* digits, then the spaces, run up to a g; group(1) is that run of digits
GramsSearch(s) ==
    LET ok(i) == /\ s[i] \in Digits
                 /\ LET k == RunEnd(s, RunEnd(s, i, Digits), Spaces)
                    IN  k <= Len(s) /\ LowerChar(s[k]) = "g"
        starts == {i \in 1..Len(s) : ok(i)}
    IN  IF starts = {} THEN NoMatch
        ELSE LET i == CHOOSE a \in starts : \A b \in starts : a <= b
             IN  [found |-> TRUE, group |-> Slice(s, i, RunEnd(s, i, Digits) - 1),
                  start |-> i]

\* parse_grams without the test for zero grams (line 109)
parse_grams_KeepsZero(s) ==
    IF s = <<>> THEN SOLD_OUT
    ELSE IF Contains(SOLD_OUT, upper(s)) THEN SOLD_OUT
    ELSE LET m == GramsSearch(s)
         IN  IF m.found THEN IntStr(int(m.group)) \o <<"g">> ELSE SOLD_OUT

parse_grams(s) ==
    IF s = <<>> THEN SOLD_OUT
    ELSE IF Contains(SOLD_OUT, upper(s)) THEN SOLD_OUT
    ELSE LET m == GramsSearch(s)
         IN  IF m.found
             THEN LET grams == int(m.group)
                  IN  IF grams = 0 THEN SOLD_OUT ELSE IntStr(grams) \o <<"g">>
             ELSE SOLD_OUT

parse_moq(s) ==
    IF s = <<>> \/ Contains(SOLD_OUT, upper(s)) THEN <<>>
    ELSE LET m == GramsSearch(s)
         IN  IF m.found THEN m.group \o <<"g">> ELSE <<>>

\* re.search(r"\$([\d.]+)", text)
PriceSearch(s) ==
    LET starts == {i \in 1..Len(s) : s[i] = "$" /\ i < Len(s)
                                        /\ s[i + 1] \in Digits \cup {"."}}
    IN  IF starts = {} THEN NoMatch
        ELSE LET i == CHOOSE a \in starts : \A b \in starts : a <= b
             IN  [found |-> TRUE,
                  group |-> Slice(s, i + 1, RunEnd(s, i + 1, Digits \cup {"."}) - 1),
                  start |-> i]

parse_price(s) ==
    IF s = <<>> THEN Float(0, <<>>)
    ELSE LET m == PriceSearch(s)
         IN  IF m.found THEN float(m.group) ELSE Float(0, <<>>)

EXOTIC == <<"e", "x", "o", "t", "i", "c">>

\* re.sub(r'\s+Exotic\s*$', '', name_text, flags=re.IGNORECASE).strip()
normalize_strain_name(s) ==
    LET ok(i) == /\ s[i] \in Spaces
                 /\ LET j == RunEnd(s, i, Spaces)
                    IN  /\ lower(Slice(s, j, j + 5)) = EXOTIC
                        /\ RunEnd(s, j + 6, Spaces) = Len(s) + 1
        starts == {i \in 1..Len(s) : ok(i)}
    IN  IF starts = {} THEN strip(s)
        ELSE LET i == CHOOSE a \in starts : \A b \in starts : a <= b
             IN  strip(Slice(s, 1, i - 1))

(***************************************************************************)
(* Row classifier (lines 143-174)                                          *)
(***************************************************************************)
TierMarkers ==
    { <<"t", "i", "e", "r", " ", "1">>, <<"t", "i", "e", "r", " ", "2">>,
      <<"t", "i", "e", "r", " ", "3">>, <<"t", "i", "e", "r", " ", "4">> }

SOCAL_Lab == <<"S", "O", "C", "A", "L", " ", "L", "a", "b">>

Vegas_Lab == <<"V", "e", "g", "a", "s", " ", "L", "a", "b">>

OC_Vegas_Lab == <<"O", "C", " ", "+", " ", "V", "e", "g", "a", "s", " ", "L", "a", "b">>

OC_Lab == <<"O", "C", " ", "L", "a", "b">>

Unknown == <<"U", "n", "k", "n", "o", "w", "n">>

extract_lab_from_section(section_text) ==
    LET section_lower == lower(section_text)
    IN  IF Contains(<<"s", "o", "c", "a", "l">>, section_lower) THEN SOCAL_Lab
        ELSE IF Contains(<<"v", "e", "g", "a", "s">>, section_lower) THEN Vegas_Lab
        ELSE IF \/ Contains(<<"t", "i", "e", "r", " ", "3">>, section_lower)
                \/ /\ Contains(<<"o", "c">>, section_lower)
                   /\ Contains(<<"l", "v">>, section_lower)
             THEN OC_Vegas_Lab
        ELSE OC_Lab

\* a table cell (td): its clean_text and the href of its first link ("" without one)
Td(t, href) == [text |-> t, href |-> href]

is_section_header(cells) ==
    IF Len(cells) = 0 THEN FALSE
    ELSE LET first_cell_text  == lower(cells[1].text)
             second_cell_text == IF Len(cells) > 1 THEN lower(cells[2].text) ELSE <<>>
         IN  \/ /\ \E marker \in TierMarkers : Contains(marker, first_cell_text)
                /\ second_cell_text \in
                       { <<>>, <<"t", "i", "e", "r">>,
                         <<"t", "i", "e", "r", " ", "l", "e", "v", "e", "l">>,
                         <<"t", "i", "e", "r", " ", "1">>, <<"t", "i", "e", "r", " ", "2">>,
                         <<"t", "i", "e", "r", " ", "3">> }
             \/ \E indicator \in { <<"s", "o", "c", "a", "l", " ", "l", "a", "b">>,
                                   <<"v", "e", "g", "a", "s", " ", "l", "a", "b">>,
                                   <<"l", "v", " ", "+", " ", "o", "c">> } :
                    Contains(indicator, first_cell_text)

(***************************************************************************)
(* Sort keys and sort_records (lines 182-216)                              *)
(***************************************************************************)
get_tier_sort_key(tier_text) ==
    LET tier_lower == lower(tier_text)
    IN  IF /\ Contains(<<"t", "i", "e", "r", " ", "1">>, tier_lower)
           /\ Contains(<<"e", "x", "o", "t", "i", "c">>, tier_lower) THEN 0
        ELSE IF Contains(<<"t", "i", "e", "r", " ", "1">>, tier_lower) THEN 1
        ELSE IF Contains(<<"t", "i", "e", "r", " ", "2">>, tier_lower) THEN 2
        ELSE IF Contains(<<"t", "i", "e", "r", " ", "3">>, tier_lower) THEN 3
        ELSE IF Contains(<<"t", "i", "e", "r", " ", "4">>, tier_lower) THEN 4
        ELSE 99

get_lab_sort_key(lab_text) ==
    LET lab_lower == lower(lab_text)
    IN  IF /\ Contains(<<"o", "c", " ", "l", "a", "b">>, lab_lower)
           /\ ~Contains(<<"v", "e", "g", "a", "s">>, lab_lower) THEN 0
        ELSE IF Contains(<<"s", "o", "c", "a", "l">>, lab_lower) THEN 1
        ELSE IF /\ Contains(<<"v", "e", "g", "a", "s">>, lab_lower)
                /\ ~Contains(<<"o", "c">>, lab_lower) THEN 2
        ELSE IF \/ Contains(<<"o", "c", " ", "+", " ", "v", "e", "g", "a", "s">>, lab_lower)
                \/ Contains(<<"v", "e", "g", "a", "s", " ", "+", " ", "o", "c">>, lab_lower)
             THEN 3
        ELSE 99

(***************************************************************************)
(* Records are Python dicts: functions from keys to values.  A value is a  *)
(* str or a float; a worksheet cell holds the same two kinds.              *)
(***************************************************************************)
Str(s) == [t |-> "str", s |-> s, x |-> Float(0, <<>>)]

Num(x) == [t |-> "float", s |-> <<>>, x |-> x]

\* str(v)
str(v) == IF v.t = "str" THEN v.s ELSE FloatStr(v.x)

\* d.get(k, "")
Get(d, k) == IF k \in DOMAIN d THEN d[k] ELSE Str(<<>>)

k_id == <<"i", "d">>

k_section == <<"s", "e", "c", "t", "i", "o", "n">>

k_strain == <<"s", "t", "r", "a", "i", "n">>

k_tier == <<"t", "i", "e", "r">>

k_stock == <<"s", "t", "o", "c", "k">>

k_moq == <<"m", "o", "q">>

k_price == <<"p", "r", "i", "c", "e">>

k_lab == <<"l", "a", "b">>

k_link == <<"l", "i", "n", "k">>

k_last_seen == <<"l", "a", "s", "t", "_", "s", "e", "e", "n">>

\* the key of sort_records' lambda, and the order of Python tuples on it
SortKey(r) ==
    <<get_tier_sort_key(r[k_tier].s), get_lab_sort_key(r[k_lab].s), lower(r[k_strain].s)>>

KeyLess(a, b) ==
    \/ a[1] < b[1]
    \/ a[1] = b[1] /\ a[2] < b[2]
    \/ a[1] = b[1] /\ a[2] = b[2] /\ StrLess(a[3], b[3])

\* sorted(rs, key=SortKey): stable, so r goes behind every element not greater than it
RECURSIVE InsertSorted(_, _)
InsertSorted(sorted, r) ==
    IF sorted = <<>> THEN <<r>>
    ELSE IF KeyLess(SortKey(r), SortKey(sorted[1])) THEN <<r>> \o sorted
    ELSE <<sorted[1]>> \o InsertSorted(Tail(sorted), r)

RECURSIVE sort_records(_)
sort_records(rs) ==
    IF rs = <<>> THEN <<>>
    ELSE InsertSorted(sort_records(Slice(rs, 1, Len(rs) - 1)), rs[Len(rs)])

(***************************************************************************)
(* fetch_menu (lines 218-282), on the rows of the scraped table            *)
(***************************************************************************)
\* format_timestamp(dt): the clock reading as a numeral (minute resolution)
format_timestamp(dt) == IntStr(dt)

\* lines 264-279: the record of one data row
BuildRecord(current_section, current_lab, strain, tier, stock, moq, price, link, dt) ==
    LET item_id == replace(lower(current_lab \o <<"|">> \o tier \o <<"|">> \o strain),
                           " ", <<"_">>)
    IN  (k_id :> Str(item_id)) @@ (k_section :> Str(current_section))
        @@ (k_strain :> Str(strain)) @@ (k_tier :> Str(tier)) @@ (k_stock :> Str(stock))
        @@ (k_moq :> Str(moq)) @@ (k_price :> Num(price))
        @@ (k_lab :> Str(IF current_lab # Unknown THEN current_lab ELSE OC_Lab))
        @@ (k_link :> Str(link)) @@ (k_last_seen :> Str(format_timestamp(dt)))

\* the text of cell n of a row, "" when the row is shorter (lines 255-258)
CellText(cells, n) == IF Len(cells) >= n THEN cells[n].text ELSE <<>>

\* lines 227-279: the loop over the rows; raised when parse_price raised
RECURSIVE FetchRows(_, _, _, _, _)
FetchRows(rows, acc, current_section, current_lab, dt) ==
    IF rows = <<>> \/ acc.raised THEN acc
    ELSE LET cells    == rows[1]
             rest     == Tail(rows)
             raw_name == cells[1].text
             link     == cells[1].href
             strain   == normalize_strain_name(raw_name)
             price    == parse_price(CellText(cells, 5))
         IN  IF Len(cells) = 0 THEN FetchRows(rest, acc, current_section, current_lab, dt)
             ELSE IF is_section_header(cells)
             THEN FetchRows(rest, acc, cells[1].text,
                            extract_lab_from_section(cells[1].text), dt)
             ELSE IF raw_name = <<>> \/ lower(raw_name) \in { <<"n", "a", "m", "e">>,
                                                     <<"s", "t", "r", "a", "i", "n">> }
             THEN FetchRows(rest, acc, current_section, current_lab, dt)
             ELSE IF /\ \E marker \in TierMarkers : Contains(marker, lower(raw_name))
                     /\ link = <<>>
             THEN FetchRows(rest, acc, current_section, current_lab, dt)
             ELSE IF price.raised
             THEN [raised |-> TRUE, records |-> <<>>]
             ELSE FetchRows(rest,
                      [acc EXCEPT !.records = Append(@,
                          BuildRecord(current_section, current_lab, strain,
                                      CellText(cells, 2), parse_grams(CellText(cells, 3)),
                                      parse_moq(CellText(cells, 4)), price, link, dt))],
                      current_section, current_lab, dt)

fetch_menu(rows, dt) ==
    LET got == FetchRows(rows, [raised |-> FALSE, records |-> <<>>], Unknown, Unknown, dt)
    IN  [raised |-> got.raised, records |-> sort_records(got.records)]

(***************************************************************************)
(* update_sheets: the diff (lines 373-421)                                 *)
(***************************************************************************)
\* bool(v)
Truthy(v) == IF v.t = "str" THEN v.s # <<>> ELSE v.x # Float(0, <<>>)

RECURSIVE Flatten(_)
Flatten(ss) == IF ss = <<>> THEN <<>> ELSE ss[1] \o Flatten(Tail(ss))

\* a list of pairs in place of the dict: a key inserted again is listed again
RECURSIVE DictOf_ListsKeyAgain(_)
DictOf_ListsKeyAgain(rs) ==
    IF rs = <<>> THEN [keys |-> <<>>, val |-> <<>>]
    ELSE LET d == DictOf_ListsKeyAgain(Slice(rs, 1, Len(rs) - 1))
             r == rs[Len(rs)]
             k == Get(r, k_id)
         IN  [keys |-> Append(d.keys, k),
              val  |-> [x \in DOMAIN d.val \cup {k} |-> IF x = k THEN r ELSE d.val[x]]]

\* {r[k_id]: r for r in rs}: a dict keeps the order in which its keys were first
\* inserted and the value inserted last
RECURSIVE DictOf(_)
DictOf(rs) ==
    IF rs = <<>> THEN [keys |-> <<>>, val |-> <<>>]
    ELSE LET d == DictOf(Slice(rs, 1, Len(rs) - 1))
             r == rs[Len(rs)]
             k == Get(r, k_id)
         IN  IF k \in DOMAIN d.val
             THEN [d EXCEPT !.val = [x \in DOMAIN d.val |-> IF x = k THEN r ELSE d.val[x]]]
             ELSE [keys |-> Append(d.keys, k), val |-> (k :> r) @@ d.val]

\* lines 373: the rows without an id are left out
SelectWithId(rs) == Flatten([i \in 1..Len(rs) |-> IF Truthy(Get(rs[i], k_id))
                                                THEN <<rs[i]>> ELSE <<>>])

old_dict_of(data) == DictOf(SelectWithId(data))

new_dict_of(recs) == DictOf(recs)

NEW_ITEM == <<"N", "E", "W", "_", "I", "T", "E", "M">>

REMOVED == <<"R", "E", "M", "O", "V", "E", "D">>

FIELD_CHANGE == <<"F", "I", "E", "L", "D", "_", "C", "H", "A", "N", "G", "E">>

\* a row of changelog_rows: the list of lines 381-384, 389-392 and 417-421, and in
\* tenth place the id the row was built for, which the code does not store
ChangeRow(ts, change_type, strain, link, tier, lab, field, old_val, new_val, item_id) ==
    <<Str(ts), Str(change_type), strain, link, tier, lab, Str(field), Str(old_val),
      Str(new_val), item_id>>

\* the comparison without lines 405-411: the strings as they are
Normalized_Raw(field, old_val, new_val) == <<old_val, new_val>>

\* the comparison with only the new price brought to two decimals
Normalized_NewOnly(field, old_val, new_val) ==
    IF field = k_price /\ new_val # <<>> /\ ~float(new_val).raised
    THEN <<old_val, Fmt2(float(new_val))>>
    ELSE <<old_val, new_val>>

\* lines 405-414: the two values as they are compared
Normalized(field, old_val, new_val) ==
    IF field = k_price
    THEN LET fo == IF old_val # <<>> THEN float(old_val) ELSE Float(0, <<>>)
             fn == IF new_val # <<>> THEN float(new_val) ELSE Float(0, <<>>)
         IN  IF fo.raised \/ fn.raised THEN <<old_val, new_val>>
             ELSE <<Fmt2(fo), Fmt2(fn)>>
    ELSE <<old_val, new_val>>

\* lines 400-421: the rows of one id present on both sides
FieldChanges(ts, old_item, new_item, item_id) ==
    Flatten([f \in 1..3 |->
        LET field   == <<k_stock, k_moq, k_price>>[f]
            old_val == str(Get(old_item, field))
            new_val == str(Get(new_item, field))
            n       == Normalized(field, old_val, new_val)
        IN  IF n[1] # n[2]
            THEN <<ChangeRow(ts, FIELD_CHANGE, new_item[k_strain], new_item[k_link],
                             new_item[k_tier], new_item[k_lab], field, old_val, new_val,
                             item_id)>>
            ELSE <<>>])

\* the ids of both dicts (line 395)
CommonIds(data, recs) == DOMAIN old_dict_of(data).val \cap DOMAIN new_dict_of(recs).val

\* the orders a Python set of these ids may be iterated in
Orders(ids) == {o \in [1..Cardinality(ids) -> ids] : \A i \in ids : \E j \in DOMAIN o : o[j] = i}

\* lines 373-421: changelog_rows, with the common ids visited in the given order
Diff(data, recs, ts, order) ==
    LET old_dict == old_dict_of(data)
        new_dict == new_dict_of(recs)
        added    == Flatten([i \in 1..Len(new_dict.keys) |->
                        LET item_id == new_dict.keys[i]
                            item    == new_dict.val[item_id]
                        IN  IF item_id \notin DOMAIN old_dict.val
                            THEN <<ChangeRow(ts, NEW_ITEM, item[k_strain], item[k_link],
                                             item[k_tier], item[k_lab], <<>>, <<>>,
                                             str(item[k_stock]), item_id)>>
                            ELSE <<>>])
        removed  == Flatten([i \in 1..Len(old_dict.keys) |->
                        LET item_id == old_dict.keys[i]
                            item    == old_dict.val[item_id]
                        IN  IF item_id \notin DOMAIN new_dict.val
                            THEN <<ChangeRow(ts, REMOVED, Get(item, k_strain),
                                             Get(item, k_link), Get(item, k_tier),
                                             Get(item, k_lab), <<>>, <<>>, <<>>, item_id)>>
                            ELSE <<>>])
        changed  == Flatten([i \in 1..Len(order) |->
                        FieldChanges(ts, old_dict.val[order[i]], new_dict.val[order[i]],
                                     order[i])])
    IN  added \o removed \o changed

(***************************************************************************)
(* update_sheets: the rows written to the two worksheets                   *)
(***************************************************************************)
\* f'=HYPERLINK("{link}","{strain_escaped}")' (lines 439-443, 548-552)
Hyperlink(link, strain) ==
    <<"=", "H", "Y", "P", "E", "R", "L", "I", "N", "K", "(", "\"">> \o link
        \o <<"\"", ",", "\"">> \o replace(strain, "\"", <<"\"", "\"">>) \o <<"\"", ")">>

\* line 428
MenuHeaders ==
    << Str(<<"S", "t", "r", "a", "i", "n">>), Str(<<"S", "t", "o", "c", "k">>),
       Str(<<"T", "i", "e", "r">>), Str(<<"M", "O", "Q">>), Str(<<"L", "a", "b">>),
       Str(<<"P", "r", "i", "c", "e">>),
       Str(<<"L", "a", "s", "t", " ", "S", "e", "e", "n">>) >>

\* lines 437-454: one row per record of the list
DataRows(recs) ==
    [i \in 1..Len(recs) |->
        LET record == recs[i]
            strain_value == IF record[k_link].s # <<>>
                            THEN Str(Hyperlink(record[k_link].s, record[k_strain].s))
                            ELSE record[k_strain]
        IN  <<strain_value, record[k_stock], record[k_tier], record[k_moq],
              record[k_lab], record[k_price], record[k_last_seen]>>]

\* line 489
ChangelogHeaders ==
    << Str(<<"S", "t", "r", "a", "i", "n">>), Str(<<"T", "i", "e", "r">>),
       Str(<<"L", "a", "b">>), Str(<<"S", "t", "a", "t", "u", "s">>),
       Str(<<"T", "i", "m", "e", "s", "t", "a", "m", "p">>) >>

\* lines 526-545; the pictographs that open each status are left out
Status(change_type, field, old_val, new_val) ==
    IF change_type = NEW_ITEM
    THEN <<"N", "E", "W", " ", "I", "T", "E", "M", " ", "-", " ", "S", "t", "o", "c",
           "k", ":", " ">> \o new_val
    ELSE IF change_type = REMOVED THEN REMOVED
    ELSE IF change_type = FIELD_CHANGE
    THEN IF field = k_stock
         THEN IF new_val = SOLD_OUT
              THEN <<"S", "O", "L", "D", " ", "O", "U", "T", " ", "(", "w", "a", "s", " ">>
                       \o old_val \o <<")">>
              ELSE IF old_val = SOLD_OUT
              THEN <<"B", "A", "C", "K", " ", "I", "N", " ", "S", "T", "O", "C", "K", " ",
                     "-", " ">> \o new_val
              ELSE <<"S", "T", "O", "C", "K", ":", " ">> \o old_val
                       \o <<" ", "-", ">", " ">> \o new_val
         ELSE IF field = k_price
         THEN <<"P", "R", "I", "C", "E", ":", " ", "$">> \o old_val
                  \o <<" ", "-", ">", " ", "$">> \o new_val
         ELSE IF field = k_moq
         THEN <<"M", "O", "Q", ":", " ">> \o old_val \o <<" ", "-", ">", " ">> \o new_val
         ELSE upper(field) \o <<":", " ">> \o old_val \o <<" ", "-", ">", " ">> \o new_val
    ELSE change_type

\* lines 514-555: [strain_formula, tier, lab, status, timestamp]
FormatChange(row) ==
    LET strain_name == str(row[3])
        link_url    == str(row[4])
    IN  << IF link_url # <<>> /\ strain_name # <<>>
           THEN Str(Hyperlink(link_url, strain_name)) ELSE row[3],
           row[5], row[6], Str(Status(row[2].s, row[7].s, row[8].s, row[9].s)), row[1] >>

\* an ascending sort read backwards: rows of one timestamp come out in reverse
RECURSIVE InsertNewestFirst_Reversing(_, _)
InsertNewestFirst_Reversing(sorted, r) ==
    IF sorted = <<>> THEN <<r>>
    ELSE IF ~StrLess(r[5].s, sorted[1][5].s) THEN <<r>> \o sorted
    ELSE <<sorted[1]>> \o InsertNewestFirst_Reversing(Tail(sorted), r)

\* list.sort(key=lambda x: x[4], reverse=True): stable, so a row goes behind every
\* row whose timestamp is not smaller than its own
RECURSIVE InsertNewestFirst(_, _)
InsertNewestFirst(sorted, r) ==
    IF sorted = <<>> THEN <<r>>
    ELSE IF StrLess(sorted[1][5].s, r[5].s) THEN <<r>> \o sorted
    ELSE <<sorted[1]>> \o InsertNewestFirst(Tail(sorted), r)

RECURSIVE SortNewestFirst(_)
SortNewestFirst(rows) ==
    IF rows = <<>> THEN <<>>
    ELSE InsertNewestFirst(SortNewestFirst(Slice(rows, 1, Len(rows) - 1)), rows[Len(rows)])

\* lines 513-559: formatted_changelog after the sort
FormattedChangelog(rows) == SortNewestFirst([i \in 1..Len(rows) |-> FormatChange(rows[i])])

\* worksheet.get_all_records(): the rows under the header row, as dicts keyed by it
get_all_records(sheet) ==
    IF sheet = <<>> THEN <<>>
    ELSE [i \in 1..(Len(sheet) - 1) |->
             [k \in {str(sheet[1][j]) : j \in 1..Len(sheet[1])} |->
                 LET j == CHOOSE c \in 1..Len(sheet[1]) : str(sheet[1][c]) = k
                 IN  IF j <= Len(sheet[i + 1]) THEN sheet[i + 1][j] ELSE Str(<<>>)]]

(***************************************************************************)
(* The normalizers applied to enumerated cell texts                        *)
(***************************************************************************)
Alphabet == {"$", "0", "1", "4", ".", "g", " ", "x"}

\* texts longer than MaxLen that the short ones cannot stand for
LongTexts ==
    { <<"S", "O", "L", "D", " ", "O", "U", "T">>,
      <<"s", "o", "l", "d", " ", "o", "u", "t">>,
      <<"1", "4", "g", " ", "S", "o", "l", "d", " ", "O", "u", "t">>,
      <<"S", "O", "L", "D", "O", "U", "T", " ", "4", "g">>,
      <<"1", "4", " ", "G">>,
      <<"1", "x", "4", "g">>,
      <<"1", "4", " ", "o", "z", " ", "4", "g">>,
      <<"$", "4", ".", "0", "0", "/", "g">>,
      <<"$", "1", ".", "4", ".", "0">>,
      <<"x", " ", "$", "4", "1">>,
      <<"Z", "k", " ", "E", "x", "o", "t", "i", "c">>,
      <<"Z", "k", " ", " ", "e", "x", "o", "t", "i", "c", " ">>,
      <<"E", "x", "o", "t", "i", "c", " ", "Z", "k">>,
      <<"E", "x", "o", "t", "i", "c">> }

Texts == UNION {[1..n -> Alphabet] : n \in 0..MaxLen} \cup LongTexts

NoParse == [grams |-> <<>>, moq |-> <<>>, price |-> Float(0, <<>>), name |-> <<>>]

ParseInit ==
    /\ text \in Texts
    /\ parsed = NoParse
    /\ ppc = "in"
    /\ current_ws = <<>> /\ changelog_ws = <<>> /\ pc = "off" /\ now = 0
    /\ records = <<>> /\ timestamp = <<>> /\ old_data = <<>> /\ set_order = <<>>
    /\ changelog_rows = <<>> /\ outcome = "none" /\ failed = {}
    /\ sheet_before = <<>> /\ log_before = <<>>
    /\ menu_rows = <<>> /\ section_label = <<>> /\ section_lab = Unknown

\* lines 260-262 and 253: the four normalizers on one cell text
Normalize ==
    /\ ppc = "in"
    /\ parsed' = [grams |-> parse_grams(text), moq |-> parse_moq(text),
                  price |-> parse_price(text), name |-> normalize_strain_name(text)]
    /\ ppc' = "out"
    /\ UNCHANGED <<text, runVars, scrapeVars>>

ParseNext == Normalize

SpecParse == ParseInit /\ [][ParseNext]_vars

(***************************************************************************)
(* Scraped tables                                                          *)
(***************************************************************************)
NoLink == <<>>

HdrSocal == << Td(<<"T", "i", "e", "r", " ", "1", " ", "S", "O", "C", "A", "L">>, NoLink) >>

RowZk ==
    << Td(<<"Z", "k">>, <<"u", "/", "z", "k">>), Td(<<"T", "i", "e", "r", " ", "1">>, NoLink),
       Td(<<"1", "4", "g">>, NoLink), Td(<<"4", "g">>, NoLink),
       Td(<<"$", "4", ".", "0", "0">>, NoLink) >>

\* the same product as RowZk (the id is lower-cased), sold out, at the same price
\* to the cent
RowZkOut ==
    << Td(<<"z", "k">>, <<"u", "/", "z", "k">>), Td(<<"T", "i", "e", "r", " ", "1">>, NoLink),
       Td(<<"S", "O", "L", "D", " ", "O", "U", "T">>, NoLink), Td(<<>>, NoLink),
       Td(<<"$", "4", ".", "0", "0", "4">>, NoLink) >>

\* the same product again, at another price
RowZkDear ==
    << Td(<<"Z", "k">>, <<"u", "/", "z", "k">>), Td(<<"T", "i", "e", "r", " ", "1">>, NoLink),
       Td(<<"1", "4", "g">>, NoLink), Td(<<"4", "g">>, NoLink),
       Td(<<"$", "1", "4">>, NoLink) >>

RowOg ==
    << Td(<<"O", "g">>, NoLink), Td(<<"T", "i", "e", "r", " ", "2">>, NoLink),
       Td(<<"4", "g">>, NoLink), Td(<<"4", "g">>, NoLink), Td(<<"$", "1">>, NoLink) >>

RowXx ==
    << Td(<<"X", "x">>, <<"u", "/", "x", "x">>), Td(<<"T", "i", "e", "r", " ", "2">>, NoLink),
       Td(<<"4", "g">>, NoLink), Td(<<>>, NoLink), Td(<<"$", "1">>, NoLink) >>

\* a row whose price text makes float() raise
RowBad ==
    << Td(<<"O", "g">>, NoLink), Td(<<"T", "i", "e", "r", " ", "2">>, NoLink),
       Td(<<"4", "g">>, NoLink), Td(<<"4", "g">>, NoLink), Td(<<"$", ".">>, NoLink) >>

\* the tables the runs scrape
Tables ==
    { <<>>, <<RowZk>>, <<RowZkOut, RowOg>>, <<HdrSocal, RowZk>>, <<RowZk, RowZkOut>>,
      <<RowOg, HdrSocal, RowZk>>, <<RowOg, RowBad>> }

(***************************************************************************)
(* The worksheets before the first run                                     *)
(***************************************************************************)
\* the header row of a sheet that names the keys update_sheets reads from
\* get_all_records (lines 373, 390-391, 401): the keys of a record (lines 268-279)
LegacyHeaders ==
    << Str(k_id), Str(k_section), Str(k_strain), Str(k_tier), Str(k_stock), Str(k_moq),
       Str(k_price), Str(k_lab), Str(k_link), Str(k_last_seen) >>

\* how a price cell reads back: as the float, as the shortest numeral ("4" for 4.0),
\* or as the currency text the sheet displays ("$4.00", lines 353-358)
PriceCell(x, mode) ==
    IF mode = "float" THEN Num(x)
    ELSE IF mode = "short" THEN Str(IF x.fr = <<>> THEN IntStr(x.ip) ELSE FloatStr(x))
    ELSE Str(<<"$">> \o Fmt2(x))

LegacySheet(recs, mode) ==
    <<LegacyHeaders>> \o
    [i \in 1..Len(recs) |->
        [j \in 1..Len(LegacyHeaders) |->
            IF LegacyHeaders[j].s = k_price THEN PriceCell(recs[i][k_price].x, mode)
            ELSE recs[i][LegacyHeaders[j].s]]]

\* the pairs (Current Menu, Changelog) a first run may find: two new worksheets
\* (lines 79, 91), or a menu with ids and the log of the run that wrote it
InitialSheets ==
    LET recs == fetch_menu(<<RowZk, RowXx>>, 0).records
    IN  { <<<<>>, <<>>>>,
          <<LegacySheet(recs, "float"),
            <<ChangelogHeaders>> \o FormattedChangelog(Diff(<<>>, recs, IntStr(0), <<>>))>> }

(***************************************************************************)
(* update_sheets, one store call per step (lines 363-600)                  *)
(***************************************************************************)
Init ==
    /\ \E s \in InitialSheets : current_ws = s[1] /\ changelog_ws = s[2]
    /\ pc = "idle"
    /\ now = 0
    /\ records = <<>> /\ timestamp = <<>> /\ old_data = <<>> /\ set_order = <<>>
    /\ changelog_rows = <<>> /\ outcome = "none" /\ failed = {}
    /\ sheet_before = <<>> /\ log_before = <<>>
    /\ text = <<>> /\ parsed = NoParse /\ ppc = "off"
    /\ menu_rows = <<>> /\ section_label = <<>> /\ section_lab = Unknown

\* main, lines 604-610: fetch_menu returned, update_sheets is entered (line 364)
Start ==
    /\ pc = "idle"
    /\ now < MaxRuns
    /\ \E table \in Tables :
        LET got == fetch_menu(table, now + 1)
        IN  /\ ~got.raised
            /\ records' = got.records
    /\ now' = now + 1
    /\ timestamp' = format_timestamp(now + 1)
    /\ pc' = "get_all_records"
    /\ old_data' = <<>> /\ set_order' = <<>> /\ changelog_rows' = <<>>
    /\ failed' = {}
    /\ sheet_before' = current_ws /\ log_before' = changelog_ws
    /\ UNCHANGED <<current_ws, changelog_ws, outcome, parseVars, scrapeVars>>

\* main, line 606: fetch_menu raised (parse_price, line 123); update_sheets is not called
FetchRaises ==
    /\ pc = "idle"
    /\ now < MaxRuns
    /\ \E table \in Tables : fetch_menu(table, now + 1).raised
    /\ now' = now + 1
    /\ outcome' = "crashed"
    /\ failed' = {}
    /\ records' = <<>> /\ timestamp' = <<>> /\ old_data' = <<>> /\ set_order' = <<>>
    /\ changelog_rows' = <<>>
    /\ sheet_before' = current_ws /\ log_before' = changelog_ws
    /\ UNCHANGED <<current_ws, changelog_ws, pc, parseVars, scrapeVars>>

\* lines 373-421 on what was read
Diffed(data) ==
    /\ old_data' = data
    /\ \E order \in Orders(CommonIds(data, records)) :
        /\ set_order' = order
        /\ changelog_rows' = Diff(data, records, timestamp, order)

\* lines 368-421: get_all_records returned
ReadRecords ==
    /\ pc = "get_all_records"
    /\ Diffed(get_all_records(current_ws))
    /\ pc' = "clear"
    /\ UNCHANGED <<current_ws, changelog_ws, now, records, timestamp, outcome, failed,
                   sheet_before, log_before, parseVars, scrapeVars>>

\* lines 370-421: get_all_records raised; the except clause goes on with no old data
ReadRecordsFails ==
    /\ pc = "get_all_records"
    /\ Diffed(<<>>)
    /\ failed' = failed \cup {pc}
    /\ pc' = "clear"
    /\ UNCHANGED <<current_ws, changelog_ws, now, records, timestamp, outcome,
                   sheet_before, log_before, parseVars, scrapeVars>>

\* line 425
ClearMenu ==
    /\ pc = "clear"
    /\ current_ws' = <<>>
    /\ pc' = "append_row"
    /\ UNCHANGED <<changelog_ws, now, records, timestamp, old_data, set_order,
                   changelog_rows, outcome, failed, sheet_before, log_before, parseVars, scrapeVars>>

\* line 430
AppendHeaders ==
    /\ pc = "append_row"
    /\ current_ws' = Append(current_ws, MenuHeaders)
    /\ pc' = "append_rows"
    /\ UNCHANGED <<changelog_ws, now, records, timestamp, old_data, set_order,
                   changelog_rows, outcome, failed, sheet_before, log_before, parseVars, scrapeVars>>

\* lines 460-461: no call when there are no rows
AppendDataRows ==
    /\ pc = "append_rows"
    /\ current_ws' = current_ws \o DataRows(records)
    /\ pc' = "format"
    /\ UNCHANGED <<changelog_ws, now, records, timestamp, old_data, set_order,
                   changelog_rows, outcome, failed, sheet_before, log_before, parseVars, scrapeVars>>

\* lines 465-483: formatting calls, which change no cell value
FormatMenu ==
    /\ pc = "format"
    /\ pc' = "get_all_values"
    /\ UNCHANGED <<current_ws, changelog_ws, now, records, timestamp, old_data, set_order,
                   changelog_rows, outcome, failed, sheet_before, log_before, parseVars, scrapeVars>>

\* where update_sheets goes once the changelog has its header row (line 509)
AfterHeaders == IF changelog_rows # <<>> THEN "changelog_append" ELSE "return"

\* lines 487-492
ReadChangelog ==
    /\ pc = "get_all_values"
    /\ pc' = IF changelog_ws = <<>> THEN "changelog_headers" ELSE AfterHeaders
    /\ UNCHANGED <<current_ws, changelog_ws, now, records, timestamp, old_data, set_order,
                   changelog_rows, outcome, failed, sheet_before, log_before, parseVars, scrapeVars>>

\* lines 493-494
WriteChangelogHeaders ==
    /\ pc = "changelog_headers"
    /\ changelog_ws' = <<ChangelogHeaders>>
    /\ pc' = "changelog_headers_format"
    /\ UNCHANGED <<current_ws, now, records, timestamp, old_data, set_order,
                   changelog_rows, outcome, failed, sheet_before, log_before, parseVars, scrapeVars>>

\* lines 496-506
FormatChangelogHeaders ==
    /\ pc = "changelog_headers_format"
    /\ pc' = AfterHeaders
    /\ UNCHANGED <<current_ws, changelog_ws, now, records, timestamp, old_data, set_order,
                   changelog_rows, outcome, failed, sheet_before, log_before, parseVars, scrapeVars>>

\* the whole changelog sorted again and written back, in place of the append
AppendChangelog_SortsWholeLog ==
    /\ pc = "changelog_append"
    /\ changelog_ws' = <<changelog_ws[1]>> \o
           SortNewestFirst(Tail(changelog_ws)
                           \o [i \in 1..Len(changelog_rows) |-> FormatChange(changelog_rows[i])])
    /\ pc' = "changelog_format"
    /\ UNCHANGED <<current_ws, now, records, timestamp, old_data, set_order,
                   changelog_rows, outcome, failed, sheet_before, log_before, parseVars, scrapeVars>>

\* lines 510-562
AppendChangelog ==
    /\ pc = "changelog_append"
    /\ changelog_ws' = changelog_ws \o FormattedChangelog(changelog_rows)
    /\ pc' = "changelog_format"
    /\ UNCHANGED <<current_ws, now, records, timestamp, old_data, set_order,
                   changelog_rows, outcome, failed, sheet_before, log_before, parseVars, scrapeVars>>

\* lines 565-598
FormatChangelog ==
    /\ pc = "changelog_format"
    /\ pc' = "return"
    /\ UNCHANGED <<current_ws, changelog_ws, now, records, timestamp, old_data, set_order,
                   changelog_rows, outcome, failed, sheet_before, log_before, parseVars, scrapeVars>>

\* update_sheets returns (line 600, or line 509 with no changes)
Return ==
    /\ pc = "return"
    /\ pc' = "idle"
    /\ outcome' = "done"
    /\ UNCHANGED <<current_ws, changelog_ws, now, records, timestamp, old_data, set_order,
                   changelog_rows, failed, sheet_before, log_before, parseVars, scrapeVars>>

\* the positions at a store call outside a try (the read of line 369 is inside one);
\* line 461 is a call only when there are rows
StoreCalls ==
    {"clear", "append_row", "format", "get_all_values", "changelog_headers",
     "changelog_headers_format", "changelog_append", "changelog_format"}
        \cup (IF records # <<>> THEN {"append_rows"} ELSE {})

\* a store call raises: the exception leaves update_sheets and main
StoreCallFails ==
    /\ pc \in StoreCalls
    /\ failed' = failed \cup {pc}
    /\ outcome' = "aborted"
    /\ pc' = "idle"
    /\ UNCHANGED <<current_ws, changelog_ws, now, records, timestamp, old_data, set_order,
                   changelog_rows, sheet_before, log_before, parseVars, scrapeVars>>

Next ==
    \/ Start
    \/ FetchRaises
    \/ ReadRecords
    \/ ReadRecordsFails
    \/ ClearMenu
    \/ AppendHeaders
    \/ AppendDataRows
    \/ FormatMenu
    \/ ReadChangelog
    \/ WriteChangelogHeaders
    \/ FormatChangelogHeaders
    \/ AppendChangelog
    \/ FormatChangelog
    \/ Return
    \/ StoreCallFails

Spec == Init /\ [][Next]_vars

(***************************************************************************)
(* The diff alone, on enumerated previous and current snapshots            *)
(***************************************************************************)
DiffRows == {RowZk, RowZkOut, RowZkDear, RowOg}

DiffTables == UNION {[1..n -> DiffRows] : n \in 0..MaxRows}

\* what get_all_records returns for a sheet holding the records of a table: a sheet
\* with ids, its prices read back in one of three ways, or the sheet that
\* update_sheets itself writes (lines 428-461)
DiffOldData ==
    UNION { { get_all_records(LegacySheet(fetch_menu(t, 0).records, "float")),
              get_all_records(LegacySheet(fetch_menu(t, 0).records, "short")),
              get_all_records(LegacySheet(fetch_menu(t, 0).records, "currency")),
              get_all_records(<<MenuHeaders>> \o DataRows(fetch_menu(t, 0).records)) }
            : t \in DiffTables }

DiffInit ==
    /\ pc = "diff"
    /\ \E p \in DiffOldData \X {fetch_menu(t, 1).records : t \in DiffTables} :
        old_data = p[1] /\ records = p[2]
    /\ \E dt \in 1..MaxRuns : now = dt /\ timestamp = format_timestamp(dt)
    /\ set_order = <<>> /\ changelog_rows = <<>>
    /\ current_ws = <<>> /\ changelog_ws = <<>> /\ outcome = "none" /\ failed = {}
    /\ sheet_before = <<>> /\ log_before = <<>>
    /\ text = <<>> /\ parsed = NoParse /\ ppc = "off"
    /\ menu_rows = <<>> /\ section_label = <<>> /\ section_lab = Unknown

\* lines 373-421
DiffStep ==
    /\ pc = "diff"
    /\ Diffed(old_data)
    /\ pc' = "diffed"
    /\ UNCHANGED <<current_ws, changelog_ws, now, records, timestamp, outcome, failed,
                   sheet_before, log_before, parseVars, scrapeVars>>

DiffNext == DiffStep

SpecDiff == DiffInit /\ [][DiffNext]_vars

(***************************************************************************)
(* fetch_menu alone, on enumerated tables of data rows and section headers *)
(***************************************************************************)
\* a section header whose label names no lab: extract_lab_from_section gives "OC Lab"
HdrOc == << Td(<<"T", "i", "e", "r", " ", "1", " ", "O", "C">>, NoLink) >>

ScrapedRows == {RowZk, RowOg, RowBad, HdrSocal, HdrOc}

\* a table holds up to MaxRows data rows around one header row
ScrapedTables == UNION {[1..n -> ScrapedRows] : n \in 0..(MaxRows + 1)}

FetchInit ==
    /\ pc = "fetch"
    /\ menu_rows \in ScrapedTables
    /\ now = 1
    /\ records = <<>> /\ timestamp = <<>> /\ old_data = <<>> /\ set_order = <<>>
    /\ changelog_rows = <<>>
    /\ current_ws = <<>> /\ changelog_ws = <<>> /\ outcome = "none" /\ failed = {}
    /\ sheet_before = <<>> /\ log_before = <<>>
    /\ text = <<>> /\ parsed = NoParse /\ ppc = "off"
    /\ section_label = <<>> /\ section_lab = Unknown

\* lines 218-282: fetch_menu returns the sorted records
FetchReturns ==
    /\ pc = "fetch"
    /\ LET got == fetch_menu(menu_rows, now)
       IN  /\ ~got.raised
           /\ records' = got.records
    /\ pc' = "fetched"
    /\ UNCHANGED <<current_ws, changelog_ws, now, timestamp, old_data, set_order,
                   changelog_rows, outcome, failed, sheet_before, log_before,
                   parseVars, scrapeVars>>

\* line 262: parse_price raised (line 123) and the exception leaves fetch_menu
FetchLeaves ==
    /\ pc = "fetch"
    /\ fetch_menu(menu_rows, now).raised
    /\ pc' = "raised"
    /\ outcome' = "crashed"
    /\ UNCHANGED <<current_ws, changelog_ws, now, records, timestamp, old_data, set_order,
                   changelog_rows, failed, sheet_before, log_before,
                   parseVars, scrapeVars>>

FetchNext == FetchReturns \/ FetchLeaves

SpecFetch == FetchInit /\ [][FetchNext]_vars

(***************************************************************************)
(* extract_lab_from_section alone, on enumerated section labels            *)
(***************************************************************************)
\* the words section labels are made of
LabelWords ==
    { <<"S", "O", "C", "A", "L">>, <<"V", "e", "g", "a", "s">>, <<"O", "C">>, <<"L", "V">>,
      <<"T", "i", "e", "r", " ", "3">>, <<"T", "i", "e", "r", " ", "1">>, <<" ">>, <<"+">>,
      <<"L", "a", "b">> }

\* labels of up to MaxLen words
Labels == { Flatten(ws) : ws \in UNION {[1..n -> LabelWords] : n \in 0..MaxLen} }

LabInit ==
    /\ pc = "label"
    /\ section_label \in Labels
    /\ section_lab = Unknown
    /\ menu_rows = <<>>
    /\ now = 0
    /\ records = <<>> /\ timestamp = <<>> /\ old_data = <<>> /\ set_order = <<>>
    /\ changelog_rows = <<>>
    /\ current_ws = <<>> /\ changelog_ws = <<>> /\ outcome = "none" /\ failed = {}
    /\ sheet_before = <<>> /\ log_before = <<>>
    /\ text = <<>> /\ parsed = NoParse /\ ppc = "off"

\* line 237: current_lab = extract_lab_from_section(current_section)
ExtractLab ==
    /\ pc = "label"
    /\ section_lab' = extract_lab_from_section(section_label)
    /\ pc' = "labelled"
    /\ UNCHANGED <<current_ws, changelog_ws, now, records, timestamp, old_data, set_order,
                   changelog_rows, outcome, failed, sheet_before, log_before,
                   parseVars, menu_rows, section_label>>

LabNext == ExtractLab

SpecLab == LabInit /\ [][LabNext]_vars

(***************************************************************************)
(* Properties                                                              *)
(***************************************************************************)
\* the ids of the rows that have one
IdsOf(rs) == {Get(rs[i], k_id) : i \in {j \in 1..Len(rs) : Truthy(Get(rs[j], k_id))}}

\* the last row of rs with this id: the one a snapshot keyed by id holds
LastWithId(rs, id) ==
    rs[CHOOSE i \in 1..Len(rs) :
          /\ Get(rs[i], k_id) = id
          /\ \A j \in (i + 1)..Len(rs) : Get(rs[j], k_id) # id]

\* the number of change rows of a type built for an id
CountRows(change_type, id) ==
    Cardinality({i \in 1..Len(changelog_rows) :
                    changelog_rows[i][2].s = change_type /\ changelog_rows[i][10] = id})

\* the number of FIELD_CHANGE rows built for a field of an id
CountFieldRows(id, field) ==
    Cardinality({i \in 1..Len(changelog_rows) :
                    /\ changelog_rows[i][2].s = FIELD_CHANGE
                    /\ changelog_rows[i][10] = id
                    /\ changelog_rows[i][7].s = field})

\* the price a value stands for, when it stands for one
HasPrice(v) == v.t = "float" \/ ~float(v.s).raised

PriceOf(v) == IF v.t = "float" THEN v.x ELSE float(v.s)

\* the previous snapshot and the current one are the same snapshot: the same ids,
\* each with the same stock, moq and price
SameSnapshot ==
    /\ \A i \in 1..Len(old_data) : Truthy(Get(old_data[i], k_id))
    /\ IdsOf(old_data) = IdsOf(records)
    /\ \A id \in IdsOf(records) :
        LET o == LastWithId(old_data, id)
            n == LastWithId(records, id)
        IN  /\ str(Get(o, k_stock)) = str(n[k_stock])
            /\ str(Get(o, k_moq)) = str(n[k_moq])
            /\ HasPrice(Get(o, k_price))
            /\ PriceOf(Get(o, k_price)) = PriceOf(n[k_price])

\* a row of the stored menu, written by update_sheets, shows this record's product
ShownIn(sheet, r) ==
    /\ sheet # <<>>
    /\ sheet[1] = MenuHeaders
    /\ \E i \in 2..Len(sheet) :
        /\ sheet[i][1] \in {r[k_strain], Str(Hyperlink(r[k_link].s, r[k_strain].s))}
        /\ sheet[i][3] = r[k_tier]
        /\ sheet[i][5] = r[k_lab]

\* C1: a product that the previous run wrote to the stored menu and that this run
\* scrapes again with the same lab, tier and name gets no NEW_ITEM row from this run
C1_KnownProductNotAddedAgain ==
    (pc = "clear" /\ failed = {} /\ outcome = "done") =>
        \A i \in 1..Len(records) :
            ShownIn(sheet_before, records[i]) => CountRows(NEW_ITEM, records[i][k_id]) = 0

\* C2: the diff of a snapshot against itself builds no change row
C2_DiffOfSameSnapshotIsEmpty ==
    (pc = "diffed" /\ SameSnapshot) => changelog_rows = <<>>

\* a snapshot diffed against itself, with a price that was stored as "4" and is 4.0 now
C2_Witness ==
    /\ pc = "diffed"
    /\ SameSnapshot
    /\ \E id \in IdsOf(records) :
        str(Get(LastWithId(old_data, id), k_price)) # str(LastWithId(records, id)[k_price])

\* C3: exactly one NEW_ITEM row for each id of the current snapshot that the previous
\* one lacks, exactly one REMOVED row for each id of the previous snapshot that the
\* current one lacks, and neither for any other id
C3_AddedAndRemovedOncePerIdentity ==
    pc = "diffed" =>
        /\ \A id \in IdsOf(old_data) \cup IdsOf(records) :
            /\ CountRows(NEW_ITEM, id) = IF id \in IdsOf(records) \ IdsOf(old_data) THEN 1 ELSE 0
            /\ CountRows(REMOVED, id) = IF id \in IdsOf(old_data) \ IdsOf(records) THEN 1 ELSE 0
        /\ \A i \in 1..Len(changelog_rows) :
            changelog_rows[i][10] \in IdsOf(old_data) \cup IdsOf(records)

\* previous {A, B}, current {A}: one row, REMOVED for B
C3_Witness ==
    /\ pc = "diffed"
    /\ Len(changelog_rows) = 1
    /\ changelog_rows[1][2].s = REMOVED
    /\ Cardinality(IdsOf(old_data)) = 2
    /\ Cardinality(IdsOf(old_data) \cap IdsOf(records)) = 1
    /\ IdsOf(records) \subseteq IdsOf(old_data)

\* the two-decimal string a price value is compared as ("0.00" for an empty cell; a
\* text that is no number is compared as it is)
TwoDecimals(v) ==
    IF str(v) = <<>> THEN <<"0", ".", "0", "0">>
    ELSE IF HasPrice(v) THEN Fmt2(PriceOf(v))
    ELSE str(v)

\* the string a tracked field of an item is compared as
Compared(item, field) ==
    IF field = k_price THEN TwoDecimals(Get(item, field)) ELSE str(Get(item, field))

\* C4: for an id of both snapshots, one FIELD_CHANGE row for each of stock, moq and
\* price whose compared strings differ and none for a field whose compared strings are
\* equal, the price compared as a two-decimal string; no FIELD_CHANGE row otherwise
C4_OneFieldChangePerDifferingField ==
    pc = "diffed" =>
        /\ \A id \in IdsOf(old_data) \cap IdsOf(records) :
            \A field \in {k_stock, k_moq, k_price} :
                CountFieldRows(id, field) =
                    IF Compared(LastWithId(old_data, id), field)
                           # Compared(LastWithId(records, id), field)
                    THEN 1 ELSE 0
        /\ \A i \in 1..Len(changelog_rows) :
            changelog_rows[i][2].s = FIELD_CHANGE =>
                /\ changelog_rows[i][10] \in IdsOf(old_data) \cap IdsOf(records)
                /\ changelog_rows[i][7].s \in {k_stock, k_moq, k_price}

\* an id of both snapshots whose stock changed and whose price, stored as "4" and
\* scraped as 4.004, did not
C4_Witness ==
    /\ pc = "diffed"
    /\ \E id \in IdsOf(old_data) \cap IdsOf(records) :
        /\ str(Get(LastWithId(old_data, id), k_price)) = <<"4">>
        /\ str(LastWithId(records, id)[k_price]) = <<"4", ".", "0", "0", "4">>
        /\ CountFieldRows(id, k_price) = 0
        /\ CountFieldRows(id, k_stock) = 1

\* C5: a run in which a store call failed is aborted and leaves both worksheets as
\* they were when it started
C5_FailedRunCommitsNothing ==
    (pc = "idle" /\ failed # {}) =>
        /\ outcome = "aborted"
        /\ current_ws = sheet_before
        /\ changelog_ws = log_before

\* C6: the menu a run has written holds one row per id of the scraped records, the
\* row of the last record with that id
C6_WrittenMenuOneRowPerIdentity ==
    pc = "format" =>
        /\ Len(current_ws) - 1 = Cardinality(IdsOf(records))
        /\ \A id \in IdsOf(records) :
            \E i \in 2..Len(current_ws) :
                current_ws[i] = DataRows(<<LastWithId(records, id)>>)[1]

\* C7: the normalizers return a value for every text: parse_price does not raise
C7_NormalizersNeverRaise ==
    ppc = "out" => ~parsed.price.raised

\* the first run of digits of a text ("" without one)
FirstDigitRun(s) ==
    LET ds == {i \in 1..Len(s) : s[i] \in Digits}
    IN  IF ds = {} THEN <<>>
        ELSE LET i == CHOOSE a \in ds : \A b \in ds : a <= b
                 j == CHOOSE b \in i..Len(s) :
                          /\ \A k \in i..b : s[k] \in Digits
                          /\ b = Len(s) \/ s[b + 1] \notin Digits
             IN  Slice(s, i, j)

\* the runs of digits of a text that a g follows, directly or after spaces: <<i, j>>
\* for the run from i to j
RunsBeforeG(s) ==
    {r \in (1..Len(s)) \X (1..Len(s)) :
        /\ r[1] <= r[2]
        /\ \A k \in r[1]..r[2] : s[k] \in Digits
        /\ r[1] = 1 \/ s[r[1] - 1] \notin Digits
        /\ r[2] = Len(s) \/ s[r[2] + 1] \notin Digits
        /\ \E g \in (r[2] + 1)..Len(s) :
            /\ s[g] \in {"g", "G"}
            /\ \A k \in (r[2] + 1)..(g - 1) : s[k] = " "}

FirstRunBeforeG(s) ==
    IF RunsBeforeG(s) = {} THEN <<>>
    ELSE LET r == CHOOSE a \in RunsBeforeG(s) : \A b \in RunsBeforeG(s) : a[1] <= b[1]
         IN  Slice(s, r[1], r[2])

\* the quantity of a text, given the run of digits it is read from
QuantityFrom(s, run) ==
    IF Contains(SOLD_OUT, upper(s)) THEN SOLD_OUT
    ELSE IF run = <<>> \/ int(run) = 0 THEN SOLD_OUT
    ELSE IntStr(int(run)) \o <<"g">>

\* C8, as claimed: parse_grams reads the quantity from the first run of digits
C8_QuantityFromFirstDigitRun ==
    ppc = "out" => parsed.grams = QuantityFrom(text, FirstDigitRun(text))

\* C8, amended: parse_grams reads the quantity from the first run of digits that a
\* g follows, directly or after spaces; it is "SOLD OUT" or a positive amount
C8_QuantityFromFirstDigitRunBeforeG ==
    ppc = "out" =>
        /\ parsed.grams = QuantityFrom(text, FirstRunBeforeG(text))
        /\ parsed.grams # SOLD_OUT =>
            /\ parsed.grams[1] \in Digits \ {"0"}
            /\ int(Slice(parsed.grams, 1, Len(parsed.grams) - 1)) > 0

\* "1x4g": the first run of digits, 1, has no g; the quantity is 4g
C8_Witness ==
    /\ ppc = "out"
    /\ text = <<"1", "x", "4", "g">>
    /\ parsed.grams = <<"4", "g">>

\* the rows of the changelog sheet under its header row
Entries(log) == IF log # <<>> /\ log[1] = ChangelogHeaders THEN Tail(log) ELSE log

\* the rows this run has appended to the changelog
Appended == Slice(Entries(changelog_ws), Len(Entries(log_before)) + 1, Len(changelog_ws))

\* a changelog row is one of a field change when its status is neither that of a
\* new item nor that of a removed one
IsFieldChangeEntry(row) ==
    /\ row[4].s # REMOVED
    /\ Slice(row[4].s, 1, 8) # <<"N", "E", "W", " ", "I", "T", "E", "M">>

\* C9: in the rows one run appends to the changelog, no row of a field change comes
\* before a row of a new or a removed item
C9_AddedAndRemovedBeforeFieldChanges ==
    pc \in {"changelog_format", "return"} =>
        \A i, j \in 1..Len(Appended) :
            i < j => ~(IsFieldChangeEntry(Appended[i]) /\ ~IsFieldChangeEntry(Appended[j]))

\* a run has appended rows of a new item, of a removed item and of field changes
C9_Witness ==
    /\ pc = "changelog_format"
    /\ \E i \in 1..Len(Appended) : Appended[i][4].s = REMOVED
    /\ \E i \in 1..Len(Appended) : Slice(Appended[i][4].s, 1, 3) = <<"N", "E", "W">>
    /\ \E i \in 1..Len(Appended) : IsFieldChangeEntry(Appended[i])

IsPrefix(a, b) == Len(a) <= Len(b) /\ Slice(b, 1, Len(a)) = a

\* C10: no step changes, reorders or removes a row the changelog holds, and after a
\* completed run the changelog holds the rows it held before, then the run's changes
C10_ChangelogAppendOnly ==
    /\ [][IsPrefix(changelog_ws, changelog_ws')]_vars
    /\ []((pc = "idle" /\ outcome = "done") =>
            Entries(changelog_ws) =
                Entries(log_before)
                    \o [i \in 1..Len(changelog_rows) |-> FormatChange(changelog_rows[i])])

\* a completed run that found rows in the changelog and appended its own
C10_Witness ==
    /\ pc = "idle"
    /\ outcome = "done"
    /\ Entries(log_before) # <<>>
    /\ changelog_rows # <<>>
    /\ Len(changelog_ws) > Len(log_before)

\* the "|"-join of a record's own lab, tier and strain, lower-cased, each space
\* replaced so that the key holds none
IdentityOf(r) ==
    replace(lower(str(r[k_lab]) \o <<"|">> \o str(r[k_tier]) \o <<"|">> \o str(r[k_strain])),
            " ", <<"_">>)

SameLabTierName(a, b) ==
    /\ a[k_lab] = b[k_lab]
    /\ a[k_tier] = b[k_tier]
    /\ a[k_strain] = b[k_strain]

\* C11: every record fetch_menu built carries the identity joined from its own lab,
\* tier and normalized name, so two records with equal lab, tier and name have equal
\* identities wherever their rows sit in the table, before the first section header
\* included
C11_IdentityFromOwnFields ==
    pc = "fetched" =>
        /\ \A i \in 1..Len(records) : str(records[i][k_id]) = IdentityOf(records[i])
        /\ \A i, j \in 1..Len(records) :
               SameLabTierName(records[i], records[j])
                   => records[i][k_id] = records[j][k_id]


\* the lab the stated priority order gives a label: "socal"; else "vegas" without
\* "oc"; else "tier 3", or "oc" together with "lv"; else the default
LabByPriority(label) ==
    LET l == lower(label)
    IN  IF Contains(<<"s", "o", "c", "a", "l">>, l) THEN SOCAL_Lab
        ELSE IF Contains(<<"v", "e", "g", "a", "s">>, l) /\ ~Contains(<<"o", "c">>, l)
             THEN Vegas_Lab
        ELSE IF \/ Contains(<<"t", "i", "e", "r", " ", "3">>, l)
                \/ Contains(<<"o", "c">>, l) /\ Contains(<<"l", "v">>, l)
             THEN OC_Vegas_Lab
        ELSE OC_Lab

\* C12: extract_lab_from_section gives every section label the one lab the fixed
\* priority order selects on its lower-cased text, first match wins: "socal" gives
\* SOCAL Lab; else "vegas" without "oc" gives Vegas Lab; else "tier 3", or "oc" and
\* "lv" together, gives OC + Vegas Lab; otherwise OC Lab
C12_LabByStatedPriority ==
    pc = "labelled" => section_lab = LabByPriority(section_label)

====
